---- MODULE Spec2Model ----
(***************************************************************************)
(* Model of stream_latency.py: the latency-metrics calculation             *)
(* (compute_metrics), the streaming collector (measure_latency) and the    *)
(* command-line entry point (main, _parse_args).                            *)
(*                                                                         *)
(* Clock readings (time.perf_counter) are modelled as integer ticks.  The  *)
(* mean inter-token gap is kept as an exact fraction [num, den], so that a *)
(* value such as 2.5 is 5/2; floating-point rounding is not modelled.       *)
(***************************************************************************)
EXTENDS Integers, Sequences, FiniteSets, TLC

(* ------------------------------ bounds -------------------------------- *)
\* largest clock value offered as an argument of compute_metrics
MaxTime == 7
\* largest start value offered as an argument of compute_metrics
MaxStart == 2
\* longest timestamps list offered as an argument of compute_metrics
MaxLen == 3
\* most chunks one stream delivers
MaxChunks == 3
\* largest advance of the clock between two consecutive readings
MaxTick == 1
\* most command-line words / argv items
MaxArgs == 2

(* ------------------------- values of the model ------------------------ *)
\* Python's None, where the value is otherwise a string
None == "<None>"
\* a clock variable that has not been assigned yet (clock readings are >= 0)
Unset == 0 - 1
\* the metrics variable before compute_metrics has returned
NoMetrics == [none |-> TRUE]
\* the request before it has been built
NoRequest == [none |-> TRUE]

Prompts == {"p1", "p2"}
KeyVals == {None, "", "sk-key"}
ModelVals == {None, "gpt-x"}

SeqsUpTo(S, n) == UNION {[1..k -> S] : k \in 0..n}

\* fractions: a value [num, den] with den > 0
Frac(n, d) == [num |-> n, den |-> d]
FracEq(f, n, d) == f.num * d = n * f.den
FracGeqZero(f) == f.num >= 0

(* ----------------------- Python list primitives ----------------------- *)
\* lst[i] for a Python list (0-based, negative indices count from the end)
py_index(lst, i) ==
    IF i >= 0 /\ i < Len(lst) THEN [ok |-> TRUE, val |-> lst[i + 1]]
    ELSE IF i < 0 /\ 0 - i <= Len(lst) THEN [ok |-> TRUE, val |-> lst[Len(lst) + i + 1]]
    ELSE [ok |-> FALSE, err |-> "IndexError"]

\* a / b for Python numbers, kept as an exact fraction
py_div(a, b) ==
    IF b = 0 THEN [ok |-> FALSE, err |-> "ZeroDivisionError"]
    ELSE [ok |-> TRUE, val |-> Frac(a, b)]

\* sum(lst)
RECURSIVE py_sum(_)
py_sum(lst) == IF lst = <<>> THEN 0 ELSE lst[1] + py_sum(Tail(lst))

(* --------------------------- compute_metrics -------------------------- *)
\* ttft = timestamps[0] - start if token_count else 0.0
ttft_of(start_, timestamps_) ==
    IF Len(timestamps_) # 0
    THEN LET first == py_index(timestamps_, 0)
         IN IF first.ok THEN [ok |-> TRUE, val |-> first.val - start_] ELSE first
    ELSE [ok |-> TRUE, val |-> 0]

\* mutant: the differences taken the wrong way round
gaps_of_reversed(timestamps_) ==
    [k \in 1..(Len(timestamps_) - 1) |->
        py_index(timestamps_, k - 1).val - py_index(timestamps_, k).val]

\* gaps = [timestamps[i] - timestamps[i - 1] for i in range(1, token_count)]
gaps_of(timestamps_) ==
    [k \in 1..(Len(timestamps_) - 1) |->
        py_index(timestamps_, k).val - py_index(timestamps_, k - 1).val]

\* mutant: the mean divides by token_count instead of len(gaps)
tbt_of_div_count(timestamps_) ==
    IF Len(timestamps_) <= 1
    THEN [ok |-> TRUE, val |-> Frac(0, 1)]
    ELSE py_div(py_sum(gaps_of(timestamps_)), Len(timestamps_))

\* mutant: the guard is token_count < 1, so one token reaches the division
tbt_of_guard(timestamps_) ==
    IF Len(timestamps_) < 1
    THEN [ok |-> TRUE, val |-> Frac(0, 1)]
    ELSE LET gaps == gaps_of(timestamps_)
         IN py_div(py_sum(gaps), Len(gaps))

\* if token_count <= 1: tbt = 0.0  else: tbt = sum(gaps) / len(gaps)
tbt_of(timestamps_) ==
    IF Len(timestamps_) <= 1
    THEN [ok |-> TRUE, val |-> Frac(0, 1)]
    ELSE LET gaps == gaps_of(timestamps_)
         IN py_div(py_sum(gaps), Len(gaps))

\* mutant: the subtraction the wrong way round
total_latency_of_swapped(start_, last_) == start_ - last_

\* total_latency = last - start
total_latency_of(start_, last_) == last_ - start_

\* the LatencyMetrics returned, or the exception raised
compute_metrics(start_, timestamps_, last_) ==
    LET token_count == Len(timestamps_)
        ttft == ttft_of(start_, timestamps_)
        tbt == tbt_of(timestamps_)
    IN IF ~ttft.ok THEN [error |-> ttft.err]
       ELSE IF ~tbt.ok THEN [error |-> tbt.err]
       ELSE [ttft |-> ttft.val, tbt |-> tbt.val,
             total_latency |-> total_latency_of(start_, last_),
             token_count |-> token_count]

IsMetrics(m) == DOMAIN m = {"ttft", "tbt", "total_latency", "token_count"}


(* ------------------------------- state -------------------------------- *)
VARIABLES
    pc,          \* position of the run
    entry,       \* "script": line 95 calls main(); "import": a caller calls main(argv)
    sys_argv,    \* the process's command-line words after the program name
    argv,        \* the argument of main: [is_none, items]
    env_key,     \* OPENAI_API_KEY in the environment (None when unset)
    env_model,   \* OPENAI_MODEL in the environment (None when unset)
    prompt,      \* args.prompt, as handed to measure_latency
    client,      \* the OpenAI client object
    model,       \* the model identifier used
    now,         \* the latest reading of time.perf_counter
    start,       \* measure_latency / compute_metrics: start
    timestamps,  \* measure_latency / compute_metrics: timestamps
    last,        \* measure_latency / compute_metrics: last
    opens,       \* how many times chat.completions.create was called
    request,     \* the keyword arguments of the streaming request
    nread,       \* chunks the loop has taken from the stream
    chunk,       \* the chunk of the latest loop iteration
    exposed,     \* history: chunks so far that exposed content or a tool call
    calls,       \* how many times compute_metrics was called
    metrics,     \* the LatencyMetrics returned
    stdout,      \* objects printed to standard output
    err          \* the exception that ended the run ("" when none)

vars == <<pc, entry, sys_argv, argv, env_key, env_model, prompt, client, model,
          now, start, timestamps, last, opens, request, nread, chunk, exposed,
          calls, metrics, stdout, err>>

NoClient == [none |-> TRUE]
NoChunk == [none |-> TRUE]
Ticks == 0..MaxTick

(* ------------------------------- chunks ------------------------------- *)
\* A streamed chunk: the number of entries of chunk.choices (the request does
\* not ask for several choices, so 0 or 1), whether choices[0].delta is None,
\* delta.content (None, "" or text) and delta.tool_calls (None, or the number
\* of fragments in the list).
NoCalls == 0 - 1
ChunkSet ==
    {[nchoices |-> 0, delta_none |-> FALSE, content |-> None, tool_calls |-> NoCalls],
     [nchoices |-> 1, delta_none |-> TRUE, content |-> None, tool_calls |-> NoCalls]}
    \cup
    {[nchoices |-> 1, delta_none |-> FALSE, content |-> c, tool_calls |-> t] :
        c \in {None, "", "tok"}, t \in {NoCalls, 0, 1}}

\* mutant: the empty string counts as content
has_content_not_none(c) == c.content # None

\* has_content = delta.content is not None and delta.content != ""
has_content(c) == c.content # None /\ c.content # ""

\* has_token = delta.tool_calls is not None and len(delta.tool_calls) > 0
has_token(c) == c.tool_calls # NoCalls /\ c.tool_calls > 0

\* the loop body's decision to append a timestamp for this chunk
records_timestamp(c) ==
    IF c.nchoices = 0 THEN FALSE
    ELSE IF c.delta_none THEN FALSE
    ELSE has_content(c) \/ has_token(c)

(* --------------------------- argument parsing ------------------------- *)
\* argparse's parse_args for a parser with the single positional "prompt":
\* args None means "use sys.argv[1:]"
parse_args(args) ==
    LET words == IF args.is_none THEN sys_argv ELSE args.items
    IN IF Len(words) = 1 THEN [ok |-> TRUE, prompt |-> words[1]]
       ELSE [ok |-> FALSE, exit |-> 2]

\* _parse_args(argv): parser.parse_args(list(argv))
_parse_args(items) == parse_args([is_none |-> FALSE, items |-> items])

\* argv or []
argv_or_empty(a) == IF a.is_none \/ a.items = <<>> THEN <<>> ELSE a.items

\* mutant: only an unset variable is rejected, the empty string passes
key_missing_none_only(k) == k = None

\* if not api_key
key_missing(k) == k = None \/ k = ""

\* os.getenv("OPENAI_MODEL", "gpt-4o-mini")
getenv_model(v) == IF v = None THEN "gpt-4o-mini" ELSE v

\* asdict(metrics): the four fields of the dataclass
asdict(m) == [f \in {"ttft", "tbt", "total_latency", "token_count"} |-> m[f]]

(* -------------------------------- Init -------------------------------- *)
Idle ==
    /\ prompt = None
    /\ client = NoClient
    /\ model = None
    /\ now = 0
    /\ opens = 0
    /\ request = NoRequest
    /\ nread = 0
    /\ chunk = NoChunk
    /\ exposed = 0
    /\ calls = 0
    /\ metrics = NoMetrics
    /\ stdout = <<>>
    /\ err = ""

\* A run of the tool: started as a script (main() with no argument) or by a
\* caller of main(argv).  The command line is only looked at when argv is None.
Init ==
    /\ pc = "main"
    /\ entry \in {"script", "import"}
    /\ argv \in [is_none : {TRUE}, items : {<<>>}]
                \cup [is_none : {FALSE}, items : SeqsUpTo(Prompts, MaxArgs)]
    /\ entry = "script" => argv.is_none
    /\ sys_argv \in SeqsUpTo(Prompts, MaxArgs)
    /\ ~argv.is_none => sys_argv = <<>>
    /\ env_key \in KeyVals
    /\ env_model \in ModelVals
    /\ start = Unset
    /\ timestamps = <<>>
    /\ last = Unset
    /\ Idle

(* ------------------------------- actions ------------------------------ *)
\* main: args = _parse_args(argv or []); a usage error exits the process
Main ==
    /\ pc = "main"
    /\ LET args == _parse_args(argv_or_empty(argv))
       IN IF args.ok
          THEN prompt' = args.prompt /\ pc' = "measure_latency" /\ err' = err
          ELSE prompt' = prompt /\ pc' = "usage_error" /\ err' = "SystemExit(2)"
    /\ UNCHANGED <<entry, sys_argv, argv, env_key, env_model, client, model, now,
                   start, timestamps, last, opens, request, nread, chunk, exposed,
                   calls, metrics, stdout>>

\* measure_latency: the credential check, then the client and the model
CheckKey ==
    /\ pc = "measure_latency"
    /\ IF key_missing(env_key)
       THEN /\ pc' = "config_error"
            /\ err' = "RuntimeError: OPENAI_API_KEY environment variable is not set."
            /\ UNCHANGED <<client, model>>
       ELSE /\ pc' = "start"
            /\ client' = [api_key |-> env_key]
            /\ model' = getenv_model(env_model)
            /\ err' = err
    /\ UNCHANGED <<entry, sys_argv, argv, env_key, env_model, prompt, now, start,
                   timestamps, last, opens, request, nread, chunk, exposed, calls,
                   metrics, stdout>>

\* start = time.perf_counter(); timestamps = []
TakeStart ==
    /\ pc = "start"
    /\ \E d \in Ticks : now' = now + d
    /\ start' = now'
    /\ timestamps' = <<>>
    /\ pc' = "open"
    /\ UNCHANGED <<entry, sys_argv, argv, env_key, env_model, prompt, client, model,
                   last, opens, request, nread, chunk, exposed, calls, metrics,
                   stdout, err>>

\* stream = client.chat.completions.create(...) returns the stream
Open ==
    /\ pc = "open"
    /\ opens' = opens + 1
    /\ request' = [model |-> model,
                   messages |-> <<[role |-> "user", content |-> prompt]>>,
                   stream |-> TRUE]
    /\ pc' = "loop"
    /\ UNCHANGED <<entry, sys_argv, argv, env_key, env_model, prompt, client, model,
                   now, start, timestamps, last, nread, chunk, exposed, calls,
                   metrics, stdout, err>>

\* client.chat.completions.create(...) raises: the exception leaves main
OpenFail ==
    /\ pc = "open"
    /\ opens' = opens + 1
    /\ request' = [model |-> model,
                   messages |-> <<[role |-> "user", content |-> prompt]>>,
                   stream |-> TRUE]
    /\ pc' = "failed"
    /\ err' = "APIError"
    /\ UNCHANGED <<entry, sys_argv, argv, env_key, env_model, prompt, client, model,
                   now, start, timestamps, last, nread, chunk, exposed, calls,
                   metrics, stdout>>

\* Property vocabulary, used only to keep the history counter `exposed`:
\* a chunk that exposes non-empty textual content or at least one tool-call
\* fragment, in the words of the specification (section 4.2).
Exposes(c) ==
    /\ c.nchoices > 0
    /\ ~c.delta_none
    /\ \/ c.content \notin {None, ""}
       \/ c.tool_calls >= 1

\* mutant: the new timestamp is inserted at the front of the list
Chunk_prepend ==
    /\ pc = "loop"
    /\ nread < MaxChunks
    /\ \E c \in ChunkSet :
        /\ chunk' = c
        /\ exposed' = IF Exposes(c) THEN exposed + 1 ELSE exposed
        /\ IF records_timestamp(c)
           THEN /\ \E d \in Ticks : now' = now + d
                /\ timestamps' = <<now'>> \o timestamps
           ELSE UNCHANGED <<now, timestamps>>
    /\ nread' = nread + 1
    /\ UNCHANGED <<pc, entry, sys_argv, argv, env_key, env_model, prompt, client,
                   model, start, last, opens, request, calls, metrics, stdout, err>>

\* one iteration of "for chunk in stream" with its body
Chunk ==
    /\ pc = "loop"
    /\ nread < MaxChunks
    /\ \E c \in ChunkSet :
        /\ chunk' = c
        /\ exposed' = IF Exposes(c) THEN exposed + 1 ELSE exposed
        /\ IF records_timestamp(c)
           THEN /\ \E d \in Ticks : now' = now + d
                /\ timestamps' = Append(timestamps, now')
           ELSE UNCHANGED <<now, timestamps>>
    /\ nread' = nread + 1
    /\ UNCHANGED <<pc, entry, sys_argv, argv, env_key, env_model, prompt, client,
                   model, start, last, opens, request, calls, metrics, stdout, err>>

\* mutant: a failed read is caught and the request is opened again
ReadFail_retry ==
    /\ pc = "loop"
    /\ pc' = "open"
    /\ UNCHANGED <<entry, sys_argv, argv, env_key, env_model, prompt, client, model,
                   now, start, timestamps, last, opens, request, nread, chunk,
                   exposed, calls, metrics, stdout, err>>

\* reading the next chunk raises: the exception leaves main
ReadFail ==
    /\ pc = "loop"
    /\ pc' = "failed"
    /\ err' = "APIError"
    /\ UNCHANGED <<entry, sys_argv, argv, env_key, env_model, prompt, client, model,
                   now, start, timestamps, last, opens, request, nread, chunk,
                   exposed, calls, metrics, stdout>>

\* the stream is exhausted: last = time.perf_counter()
StreamEnd ==
    /\ pc = "loop"
    /\ \E d \in Ticks : now' = now + d
    /\ last' = now'
    /\ pc' = "compute"
    /\ UNCHANGED <<entry, sys_argv, argv, env_key, env_model, prompt, client, model,
                   start, timestamps, opens, request, nread, chunk, exposed, calls,
                   metrics, stdout, err>>

\* return compute_metrics(start=start, timestamps=timestamps, last=last)
Return ==
    /\ pc = "compute"
    /\ calls' = calls + 1
    /\ LET m == compute_metrics(start, timestamps, last)
       IN IF IsMetrics(m)
          THEN metrics' = m /\ pc' = "print" /\ err' = err
          ELSE metrics' = metrics /\ pc' = "failed" /\ err' = m.error
    /\ UNCHANGED <<entry, sys_argv, argv, env_key, env_model, prompt, client, model,
                   now, start, timestamps, last, opens, request, nread, chunk,
                   exposed, stdout>>

\* print(json.dumps(asdict(metrics), indent=2))
PrintMetrics ==
    /\ pc = "print"
    /\ stdout' = Append(stdout, asdict(metrics))
    /\ pc' = "done"
    /\ UNCHANGED <<entry, sys_argv, argv, env_key, env_model, prompt, client, model,
                   now, start, timestamps, last, opens, request, nread, chunk,
                   exposed, calls, metrics, err>>

Next ==
    \/ Main
    \/ CheckKey
    \/ TakeStart
    \/ Open
    \/ OpenFail
    \/ Chunk
    \/ ReadFail
    \/ StreamEnd
    \/ Return
    \/ PrintMetrics

Spec == Init /\ [][Next]_vars

(* ------------- compute_metrics called on arbitrary arguments ---------- *)
CalcInit ==
    /\ pc = "compute_metrics"
    /\ entry = "import"
    /\ argv = [is_none |-> TRUE, items |-> <<>>]
    /\ sys_argv = <<>>
    /\ env_key = None
    /\ env_model = None
    /\ start \in 0..MaxStart
    /\ timestamps \in SeqsUpTo(0..MaxTime, MaxLen)
    /\ last \in 0..MaxTime
    /\ Idle

\* a call of compute_metrics(start, timestamps, last) and its return
CalcCall ==
    /\ pc = "compute_metrics"
    /\ calls' = calls + 1
    /\ LET m == compute_metrics(start, timestamps, last)
       IN IF IsMetrics(m)
          THEN metrics' = m /\ pc' = "returned" /\ err' = err
          ELSE metrics' = metrics /\ pc' = "raised" /\ err' = m.error
    /\ UNCHANGED <<entry, sys_argv, argv, env_key, env_model, prompt, client, model,
                   now, start, timestamps, last, opens, request, nread, chunk,
                   exposed, stdout>>

CalcNext == CalcCall

CalcSpec == CalcInit /\ [][CalcNext]_vars

(* ============================== properties ============================ *)
NonDecreasing(ts) == \A i \in 1..(Len(ts) - 1) : ts[i] <= ts[i + 1]

\* sum of the consecutive differences ts[k] - ts[k-1] for the first i elements
RECURSIVE SumOfDiffs(_, _)
SumOfDiffs(ts, i) == IF i <= 1 THEN 0 ELSE (ts[i] - ts[i - 1]) + SumOfDiffs(ts, i - 1)

Returned == pc = "returned"

(* C1: compute_metrics returns token_count = length of timestamps, ttft =   *)
(* timestamps[0] - start (0 when empty), tbt = 0 for at most one token and   *)
(* otherwise the mean of the token_count-1 consecutive differences, and      *)
(* total_latency = end - start; start=0, [1,3,6], end=7 gives 1, 2.5, 7, 3.  *)
C1_Metrics ==
    Returned =>
        LET n == Len(timestamps)
        IN /\ IsMetrics(metrics)
           /\ metrics.token_count = n
           /\ metrics.ttft = (IF n > 0 THEN timestamps[1] - start ELSE 0)
           /\ IF n <= 1
              THEN FracEq(metrics.tbt, 0, 1)
              ELSE FracEq(metrics.tbt, SumOfDiffs(timestamps, n), n - 1)
           /\ metrics.tbt.den > 0
           /\ metrics.total_latency = last - start
           /\ (start = 0 /\ timestamps = <<1, 3, 6>> /\ last = 7) =>
                 /\ metrics.ttft = 1
                 /\ FracEq(metrics.tbt, 5, 2)
                 /\ metrics.total_latency = 7
                 /\ metrics.token_count = 3

C1_Witness ==
    /\ Returned
    /\ start = 0 /\ timestamps = <<1, 3, 6>> /\ last = 7
    /\ metrics = [ttft |-> 1, tbt |-> Frac(5, 2), total_latency |-> 7, token_count |-> 3]

(* C2 as stated: timestamps non-decreasing and end >= last(timestamps)       *)
(* (nothing asked of end when timestamps is empty) imply tbt >= 0 and        *)
(* total_latency >= ttft.                                                    *)
C2_Original ==
    (Returned /\ NonDecreasing(timestamps)
        /\ (timestamps # <<>> => last >= timestamps[Len(timestamps)]))
    => /\ FracGeqZero(metrics.tbt)
       /\ metrics.total_latency >= metrics.ttft

(* C2 amended: the same, with end >= start required when timestamps is       *)
(* empty; and for empty non-decreasing input total_latency >= ttft holds     *)
(* exactly when end >= start.                                                *)
C2_Amended ==
    (Returned /\ NonDecreasing(timestamps)
        /\ (timestamps # <<>> => last >= timestamps[Len(timestamps)]))
    => /\ FracGeqZero(metrics.tbt)
       /\ timestamps # <<>> => metrics.total_latency >= metrics.ttft
       /\ timestamps = <<>> => (metrics.total_latency >= metrics.ttft <=> last >= start)

C2_Witness ==
    /\ Returned
    /\ Len(timestamps) >= 2
    /\ NonDecreasing(timestamps)
    /\ timestamps[1] < timestamps[Len(timestamps)]
    /\ last >= timestamps[Len(timestamps)]
    /\ start > last
    /\ metrics.total_latency < 0
    /\ metrics.total_latency >= metrics.ttft

(* C3: compute_metrics raises nothing: length 0 gives ttft 0, tbt 0 and      *)
(* token_count 0; length 1 at t gives ttft t - start and tbt 0; from length  *)
(* 2 on the divisor of the mean is token_count - 1 >= 1.                     *)
C3_Total ==
    pc # "compute_metrics" =>
        LET n == Len(timestamps)
        IN /\ Returned
           /\ err = ""
           /\ IsMetrics(metrics)
           /\ n = 0 => /\ metrics.ttft = 0
                       /\ metrics.tbt = Frac(0, 1)
                       /\ metrics.token_count = 0
           /\ n = 1 => /\ metrics.ttft = timestamps[1] - start
                       /\ metrics.tbt = Frac(0, 1)
           /\ n >= 2 => /\ metrics.tbt.den = n - 1
                        /\ metrics.tbt.den >= 1

C3_Witness ==
    /\ Returned
    /\ Len(timestamps) = 1
    /\ timestamps[1] > start
    /\ metrics.ttft = timestamps[1] - start
    /\ metrics.tbt = Frac(0, 1)

\* the domain the data model states for a Timing Input
TimingInput ==
    /\ NonDecreasing(timestamps)
    /\ last >= start
    /\ timestamps # <<>> => last >= timestamps[Len(timestamps)]

(* C4 as stated: on the data model's domain all four metrics are >= 0.       *)
C4_Original ==
    (Returned /\ TimingInput)
    => /\ metrics.ttft >= 0
       /\ FracGeqZero(metrics.tbt)
       /\ metrics.total_latency >= 0
       /\ metrics.token_count >= 0

(* C4 amended: on that domain tbt, total_latency and token_count are >= 0,   *)
(* and ttft >= 0 exactly when timestamps is empty or start <= timestamps[0]. *)
C4_Amended ==
    (Returned /\ TimingInput)
    => /\ FracGeqZero(metrics.tbt)
       /\ metrics.total_latency >= 0
       /\ metrics.token_count >= 0
       /\ metrics.ttft >= 0 <=> (timestamps = <<>> \/ start <= timestamps[1])

C4_Witness ==
    /\ Returned
    /\ TimingInput
    /\ Len(timestamps) = MaxLen
    /\ start < timestamps[1]
    /\ timestamps[1] < timestamps[2]
    /\ metrics.ttft > 0
    /\ metrics.tbt.num > 0
    /\ metrics.total_latency > 0

MetricFields == {"ttft", "tbt", "total_latency", "token_count"}

(* C5: run as a script with exactly one command-line argument P, the prompt  *)
(* handed to measure_latency and sent in the request is P, and a run that    *)
(* completes prints one object with the four fields.                         *)
C5_ScriptPrompt ==
    (entry = "script" /\ Len(sys_argv) = 1) =>
        /\ pc # "main" => (pc # "usage_error" /\ prompt = sys_argv[1])
        /\ request # NoRequest => request.messages[1].content = sys_argv[1]
        /\ pc = "done" => (Len(stdout) = 1 /\ DOMAIN stdout[1] = MetricFields)

(* C6: with the credential unset or empty, measure_latency ends the run at   *)
(* once with the configuration error: no client, no start timestamp, no      *)
(* request, no compute_metrics call, nothing printed, nothing further runs;  *)
(* with a non-empty credential that error is never raised.                   *)
C6_ConfigError ==
    /\ (env_key \in {None, ""} /\ pc \notin {"main", "measure_latency", "usage_error"})
        => /\ pc = "config_error"
           /\ err = "RuntimeError: OPENAI_API_KEY environment variable is not set."
           /\ client = NoClient
           /\ start = Unset
           /\ last = Unset
           /\ opens = 0
           /\ request = NoRequest
           /\ calls = 0
           /\ metrics = NoMetrics
           /\ stdout = <<>>
           /\ ~ENABLED Next
    /\ env_key \notin {None, ""} => pc # "config_error"

C6_Witness ==
    /\ pc = "config_error"
    /\ env_key = ""
    /\ prompt \in Prompts

(* C7: in the streaming loop a timestamp is appended for a chunk exactly     *)
(* when the chunk exposes non-empty content or a tool-call fragment, one per *)
(* such chunk and at the end of the list; so the list has one entry per      *)
(* exposing chunk and the reported token_count is their number.              *)
C7_Timestamps ==
    [][/\ timestamps' # timestamps =>
            /\ pc = "loop" /\ nread' = nread + 1
            /\ Exposes(chunk')
            /\ Len(timestamps') = Len(timestamps) + 1
            /\ SubSeq(timestamps', 1, Len(timestamps)) = timestamps
       /\ (nread' = nread + 1 /\ Exposes(chunk')) =>
            Len(timestamps') = Len(timestamps) + 1
       /\ (nread' = nread + 1 /\ ~Exposes(chunk')) => timestamps' = timestamps
       /\ Len(timestamps') = exposed'
       /\ pc' = "done" => metrics'.token_count = exposed'
      ]_vars

C7_Witness ==
    /\ pc = "done"
    /\ nread = MaxChunks
    /\ exposed = 2
    /\ chunk.content = ""
    /\ metrics.token_count = 2
    /\ Len(stdout) = 1

(* C9: the request is opened once per run and the end timestamp is taken     *)
(* only after the stream is exhausted; when opening or reading fails the run *)
(* stops there: no retry, no end timestamp, no compute_metrics call, nothing *)
(* printed, whatever timestamps were collected.                              *)
C9_NoPartial ==
    /\ opens <= 1
    /\ pc \in {"loop", "compute", "print", "done", "failed"} => opens = 1
    /\ last # Unset => (pc \in {"compute", "print", "done"} /\ err = "")
    /\ pc = "failed" =>
        /\ err = "APIError"
        /\ last = Unset
        /\ calls = 0
        /\ metrics = NoMetrics
        /\ stdout = <<>>
        /\ ~ENABLED Next
    /\ calls > 0 => last # Unset
    /\ stdout # <<>> => (pc = "done" /\ calls = 1)

C9_Witness ==
    /\ pc = "failed"
    /\ Len(timestamps) >= 2
    /\ last = Unset
    /\ stdout = <<>>

(* C10: with a clock that never goes backwards, start is read before the     *)
(* request is opened, each token timestamp after start and after the earlier *)
(* ones, the end timestamp after the last chunk; so start <= timestamps[0]   *)
(* <= ... <= end, and the metrics have ttft, tbt, total_latency >= 0 and     *)
(* total_latency >= ttft + (token_count - 1) * tbt for token_count >= 1.     *)
C10_Ordered ==
    /\ opens > 0 => start # Unset
    /\ start # Unset =>
        /\ start >= 0
        /\ NonDecreasing(timestamps)
        /\ \A i \in 1..Len(timestamps) : start <= timestamps[i] /\ timestamps[i] <= now
    /\ last # Unset =>
        /\ start <= last
        /\ \A i \in 1..Len(timestamps) : timestamps[i] <= last
    /\ pc \in {"print", "done"} =>
        /\ metrics.ttft >= 0
        /\ FracGeqZero(metrics.tbt)
        /\ metrics.total_latency >= 0
        /\ metrics.token_count >= 1 =>
            metrics.total_latency * metrics.tbt.den
                >= metrics.ttft * metrics.tbt.den
                   + (metrics.token_count - 1) * metrics.tbt.num

C10_Witness ==
    /\ pc = "done"
    /\ Len(timestamps) = MaxChunks
    /\ start < timestamps[1]
    /\ timestamps[1] < timestamps[Len(timestamps)]
    /\ timestamps[Len(timestamps)] < last
    /\ metrics.tbt.num > 0

====
